---- MODULE Spec2Model ----
(***************************************************************************)
(* Chunk-store metadata index of h5py datasets (Dataset.store,            *)
(* DatasetID.get_num_chunks, get_chunk_info, get_chunk_info_by_coord) as   *)
(* exercised by h5py/tests/hl/test_dataset_storeinfo.py.                   *)
(*                                                                         *)
(* One behaviour follows one dataset of one file: the file is built        *)
(* (chunks are written), flushed, and then queried.  The index itself is   *)
(* read-only; only the write path changes the stored chunk table.          *)
(***************************************************************************)
EXTENDS Integers, Sequences, FiniteSets, TLC

VARIABLES dset, btree, cont_addr, chunk_offsets, fileLen, pc, result

vars == <<dset, btree, cont_addr, chunk_offsets, fileLen, pc, result>>

(***************************************************************************)
(* Bounds of the model.                                                    *)
(***************************************************************************)
\* Largest number of chunks written into a dataset by WriteChunk.
MaxWrites == 3
\* Linear indices are queried from -IdxMargin up to grid size + IdxMargin - 1.
IdxMargin == 2
\* A read asks for the recorded size of a byte range plus 0..MaxOverread bytes.
MaxOverread == 2

(***************************************************************************)
(* Unset values.  The binding reports an undefined address as None; the    *)
(* model keeps integers and uses -1, which no index or address can be.     *)
(***************************************************************************)
None == 0 - 1
NoneCoord == <<None>>

\* First byte of the file that can hold raw data (the file starts with its
\* superblock and object headers, so no stored byte range begins at 0).
HeaderSize == 2048

(***************************************************************************)
(* Dataset layouts: the four datasets of TestStoreInfo.setUp and three     *)
(* small ones ("small", "vec", "cont_nodata") that take arbitrary writes,  *)
(* and a chunked one of rank 3 ("cube").                                   *)
(***************************************************************************)
DatasetNames ==
    {"chunked", "cont", "chunked_nodata", "empty", "small", "vec", "cont_nodata",
     "cube"}

\* shape of a dataset; <<>> stands for "no shape" of the empty dataset.
Shape(d) ==
    CASE d = "chunked"        -> <<24, 16>>
      [] d = "cont"           -> <<7, 11, 4>>
      [] d = "chunked_nodata" -> <<10, 20>>
      [] d = "empty"          -> <<>>
      [] d = "small"          -> <<5, 4>>
      [] d = "vec"            -> <<7>>
      [] d = "cont_nodata"    -> <<3, 2>>
      [] d = "cube"           -> <<3, 4, 5>>

\* chunk shape of a dataset; <<>> stands for dset.chunks is None.
Chunks(d) ==
    CASE d = "chunked"        -> <<6, 4>>
      [] d = "chunked_nodata" -> <<5, 4>>
      [] d = "small"          -> <<2, 2>>
      [] d = "vec"            -> <<3>>
      [] d = "cube"           -> <<2, 2, 2>>
      [] OTHER                -> <<>>

\* dtype.itemsize: 'i4' is 4 bytes, numpy's default integer is 8, 'f' is 4.
ItemSize(d) ==
    CASE d = "cont" -> 8
      [] OTHER      -> 4

IsShapeless(d) == d = "empty"
IsChunked(d) == Chunks(d) # <<>>
IsContiguous(d) == ~IsShapeless(d) /\ ~IsChunked(d)

\* Datasets created with data=...: their storage exists when setUp returns.
CreatedWithData(d) == d = "cont"

(***************************************************************************)
(* Arithmetic helpers.                                                     *)
(***************************************************************************)
RECURSIVE Prod(_)
Prod(s) == IF s = <<>> THEN 1 ELSE Head(s) * Prod(Tail(s))

Rank(d) == Len(Shape(d))

\* dset.size * dset.dtype.itemsize
DatasetBytes(d) == Prod(Shape(d)) * ItemSize(d)

\* np.prod(dset.chunks) * dset.dtype.itemsize
ChunkBytes(d) == Prod(Chunks(d)) * ItemSize(d)

ZeroCoord(d) == [i \in 1..Rank(d) |-> 0]

(***************************************************************************)
(* Coordinate codec.                                                       *)
(***************************************************************************)
\* g_d = ceil(shape[d] / chunk_shape[d])
GridDims(d) ==
    [i \in 1..Rank(d) |-> (Shape(d)[i] + Chunks(d)[i] - 1) \div Chunks(d)[i]]

\* number of slots of the chunk grid
TotalChunks(d) == Prod(GridDims(d))

\* product of the grid dimensions after axis i (row-major stride of axis i)
RECURSIVE Stride(_, _)
Stride(d, i) == IF i >= Rank(d) THEN 1 ELSE GridDims(d)[i + 1] * Stride(d, i + 1)

\* as IsAligned, but looking at the first axis only
IsAligned_FirstAxis(d, coord) ==
    /\ Len(coord) = Rank(d)
    /\ coord[1] % Chunks(d)[1] = 0

\* a coordinate of the dataset's rank that is a multiple of the chunk shape
IsAligned(d, coord) ==
    /\ Len(coord) = Rank(d)
    /\ \A i \in 1..Rank(d) : coord[i] % Chunks(d)[i] = 0

\* linear_index(coordinate): row-major, last axis fastest
RECURSIVE LinearIndexUpTo(_, _, _)
LinearIndexUpTo(d, coord, i) ==
    IF i = 0 THEN 0
    ELSE LinearIndexUpTo(d, coord, i - 1) * GridDims(d)[i] + (coord[i] \div Chunks(d)[i])

\* product of the grid dimensions before axis i
RECURSIVE StrideBefore(_, _)
StrideBefore(d, i) == IF i <= 1 THEN 1 ELSE GridDims(d)[i - 1] * StrideBefore(d, i - 1)

RECURSIVE ColumnMajorFrom(_, _, _)
ColumnMajorFrom(d, coord, i) ==
    IF i > Rank(d) THEN 0
    ELSE (coord[i] \div Chunks(d)[i]) * StrideBefore(d, i)
            + ColumnMajorFrom(d, coord, i + 1)

\* as LinearIndex, but column-major (first axis fastest)
LinearIndex_ColumnMajor(d, coord) == ColumnMajorFrom(d, coord, 1)

LinearIndex(d, coord) == LinearIndexUpTo(d, coord, Rank(d))

\* coordinate(index): array-space origin of grid slot index
Coordinate(d, index) ==
    [i \in 1..Rank(d) |-> ((index \div Stride(d, i)) % GridDims(d)[i]) * Chunks(d)[i]]

GridCoords(d) == {Coordinate(d, i) : i \in 0..(TotalChunks(d) - 1)}

(***************************************************************************)
(* Initial state: a file holding the dataset as setUp's create_dataset     *)
(* calls leave it.                                                         *)
(***************************************************************************)
NoResult ==
    [op |-> "none", status |-> "ok", idx |-> None, coord |-> <<>>,
     n |-> 0, recs |-> <<>>]

Init ==
    /\ dset \in DatasetNames
    /\ btree = {}
    /\ cont_addr = IF CreatedWithData(dset) THEN HeaderSize ELSE None
    /\ fileLen = IF CreatedWithData(dset) THEN HeaderSize + DatasetBytes(dset)
                 ELSE HeaderSize
    /\ chunk_offsets = <<>>
    /\ pc = "setup"
    /\ result = NoResult

(***************************************************************************)
(* Write path.                                                             *)
(***************************************************************************)
\* Storing a chunk for the first time appends its bytes to the file and
\* enters it into the dataset's chunk table.
StoreChunk(c) ==
    /\ btree' = btree \cup
          {[coord |-> c, addr |-> fileLen, size |-> ChunkBytes(dset), mask |-> 0]}
    /\ fileLen' = fileLen + ChunkBytes(dset)
    /\ chunk_offsets' = Append(chunk_offsets, c)

\* as SetUpOffset, but with j in range(2)
SetUpOffset_FirstColumns(k) ==
    <<(k \div 2) * Chunks("chunked")[1], (k % 2) * Chunks("chunked")[2]>>

\* The k-th (k = 0..3) region of setUp's loop
\*   for i in range(2): for j in range(2, 4)
SetUpOffset(k) ==
    <<(k \div 2) * Chunks("chunked")[1], (2 + (k % 2)) * Chunks("chunked")[2]>>

SetUpLoopDone == Len(chunk_offsets) = 4

SetUpWrite ==
    /\ pc = "setup"
    /\ dset = "chunked"
    /\ ~SetUpLoopDone
    /\ StoreChunk(SetUpOffset(Len(chunk_offsets)))
    /\ UNCHANGED <<dset, cont_addr, pc, result>>

\* dset[region] = data for one whole chunk of a chunked dataset
WriteChunk ==
    /\ pc = "setup"
    /\ dset \in {"small", "vec"}
    /\ Len(chunk_offsets) < MaxWrites
    /\ \E c \in GridCoords(dset) :
          /\ c \notin {e.coord : e \in btree}
          /\ StoreChunk(c)
    /\ UNCHANGED <<dset, cont_addr, pc, result>>

\* first write into a contiguous dataset allocates its single block
WriteContiguous ==
    /\ pc = "setup"
    /\ IsContiguous(dset)
    /\ cont_addr = None
    /\ cont_addr' = fileLen
    /\ fileLen' = fileLen + DatasetBytes(dset)
    /\ UNCHANGED <<dset, btree, chunk_offsets, pc, result>>

\* self.f.flush() at the end of setUp
Flush ==
    /\ pc = "setup"
    /\ dset = "chunked" => SetUpLoopDone
    /\ pc' = "flushed"
    /\ UNCHANGED <<dset, btree, cont_addr, chunk_offsets, fileLen, result>>

(***************************************************************************)
(* Chunk directory: the records the queries report.                        *)
(***************************************************************************)
StoreInfo(index, chunk_offset, filter_mask, file_offset, size) ==
    [index |-> index, chunk_offset |-> chunk_offset, filter_mask |-> filter_mask,
     file_offset |-> file_offset, size |-> size]

WrittenCoords == {e.coord : e \in btree}

ChunkEntry(c) == CHOOSE e \in btree : e.coord = c

\* The k-th (from 0) written chunk in row-major order of the grid.
NthChunk(k) ==
    CHOOSE c \in WrittenCoords :
        Cardinality({x \in WrittenCoords :
                        LinearIndex(dset, x) < LinearIndex(dset, c)}) = k

\* Position of a written chunk among the written chunks.
ChunkPosition(c) ==
    Cardinality({x \in WrittenCoords : LinearIndex(dset, x) < LinearIndex(dset, c)})

\* as WrittenByIndex, but reporting the chunk's slot in the grid as its index
WrittenByIndex_GridSlot(k) ==
    LET e == ChunkEntry(NthChunk(k))
    IN  StoreInfo(LinearIndex(dset, e.coord), e.coord, e.mask, e.addr, e.size)

\* Record of the k-th written chunk, as get_chunk_info(k) and store[k] show it.
WrittenByIndex(k) ==
    LET e == ChunkEntry(NthChunk(k))
    IN  StoreInfo(k, e.coord, e.mask, e.addr, e.size)

\* as UnwrittenByIndex, but deriving the offset of the slot
UnwrittenByIndex_WithOffset(idx) ==
    StoreInfo(idx, Coordinate(dset, idx), 0, None, 0)

\* Record for an index that no written chunk has.
UnwrittenByIndex(idx) == StoreInfo(idx, NoneCoord, 0, None, 0)

\* as WrittenByCoord, but with the address relative to the start of raw data
WrittenByCoord_Relative(coord) ==
    LET e == ChunkEntry(coord)
    IN  StoreInfo(ChunkPosition(coord), e.coord, e.mask, e.addr - HeaderSize, e.size)

\* Record of a written chunk looked up by its offset in the array.
WrittenByCoord(coord) ==
    LET e == ChunkEntry(coord)
    IN  StoreInfo(ChunkPosition(coord), e.coord, e.mask, e.addr, e.size)

\* as UnwrittenByCoord, but computing the slot of the offset
UnwrittenByCoord_Indexed(coord) ==
    StoreInfo(LinearIndex(dset, coord), NoneCoord, 0, None, 0)

\* Record for a chunk offset that was never written.
UnwrittenByCoord(coord) == StoreInfo(None, NoneCoord, 0, None, 0)

\* as ContiguousRecord, but with the element count as the size
ContiguousRecord_ElementCount ==
    StoreInfo(0, ZeroCoord(dset), 0, cont_addr, Prod(Shape(dset)))

\* The single record of a contiguous dataset whose block is allocated.
ContiguousRecord ==
    StoreInfo(0, ZeroCoord(dset), 0, cont_addr, DatasetBytes(dset))

Reply(op, status, idx, coord, n, recs) ==
    [op |-> op, status |-> status, idx |-> idx, coord |-> coord,
     n |-> n, recs |-> recs]

(***************************************************************************)
(* Store-info accessor: the four queries.                                  *)
(***************************************************************************)
\* chunk_count()
get_num_chunks ==
    CASE IsShapeless(dset)  -> 0
      [] IsContiguous(dset) -> IF cont_addr = None THEN 0 ELSE 1
      [] OTHER              -> Cardinality(btree)

\* as EmptyStore, but answering with a placeholder record
EmptyStore_Placeholder == <<StoreInfo(0, NoneCoord, 0, None, 0)>>

\* store of a dataset whose shape is None
EmptyStore == <<>>

\* store of a contiguous dataset: its block, once allocated
ContiguousStore == IF cont_addr = None THEN <<>> ELSE <<ContiguousRecord>>

\* as ChunkedStore, but walking every slot of the grid
ChunkedStore_AllSlots ==
    [k \in 1..TotalChunks(dset) |->
        IF k - 1 < Cardinality(btree) THEN WrittenByIndex(k - 1)
        ELSE StoreInfo(k - 1, NoneCoord, 0, None, 0)]

\* store of a chunked dataset: get_chunk_info(k) of every written chunk
ChunkedStore == [k \in 1..Cardinality(btree) |-> WrittenByIndex(k - 1)]

\* list_all()
store ==
    CASE IsShapeless(dset)  -> EmptyStore
      [] IsContiguous(dset) -> ContiguousStore
      [] OTHER              -> ChunkedStore

\* as IndexInGrid, but admitting the index one past the grid
IndexInGrid_OffByOne(idx) == idx >= 0 /\ idx <= TotalChunks(dset)

\* an index is inside the grid of a chunked dataset
IndexInGrid(idx) == idx >= 0 /\ idx < TotalChunks(dset)

\* get_by_index(idx)
get_chunk_info(idx) ==
    CASE IsShapeless(dset)  ->
            Reply("get_chunk_info", "IndexOutOfRange", idx, <<>>, 0, <<>>)
      [] IsContiguous(dset) ->
            \* queried with idx = 0 only
            Reply("get_chunk_info", "ok", idx, <<>>, 0,
                  <<IF cont_addr = None THEN UnwrittenByIndex(idx)
                    ELSE ContiguousRecord>>)
      [] OTHER              ->
            IF ~IndexInGrid(idx)
            THEN Reply("get_chunk_info", "IndexOutOfRange", idx, <<>>, 0, <<>>)
            ELSE Reply("get_chunk_info", "ok", idx, <<>>, 0,
                       <<IF idx < Cardinality(btree) THEN WrittenByIndex(idx)
                         ELSE UnwrittenByIndex(idx)>>)

\* get_by_coordinate(coord)
get_chunk_info_by_coord(coord) ==
    CASE IsShapeless(dset)  ->
            Reply("get_chunk_info_by_coord", "IndexOutOfRange", None, coord, 0, <<>>)
      [] IsContiguous(dset) ->
            \* queried with the all-zeros coordinate only
            Reply("get_chunk_info_by_coord", "ok", None, coord, 0,
                  <<IF cont_addr = None THEN UnwrittenByCoord(coord)
                    ELSE ContiguousRecord>>)
      [] OTHER              ->
            IF ~IsAligned(dset, coord)
            THEN Reply("get_chunk_info_by_coord", "InvalidCoordinate", None,
                       coord, 0, <<>>)
            ELSE Reply("get_chunk_info_by_coord", "ok", None, coord, 0,
                       <<IF coord \in WrittenCoords THEN WrittenByCoord(coord)
                         ELSE UnwrittenByCoord(coord)>>)

\* Coordinate Codec, coordinate(index): the offset of grid slot index, or
\* IndexOutOfRange.
coordinate(index) ==
    IF ~IndexInGrid(index)
    THEN Reply("coordinate", "IndexOutOfRange", index, <<>>, 0, <<>>)
    ELSE Reply("coordinate", "ok", index, Coordinate(dset, index), 0, <<>>)

\* Coordinate Codec, linear_index(coord): the grid slot of a chunk offset, or
\* InvalidCoordinate.
linear_index(coord) ==
    IF ~IsAligned(dset, coord)
    THEN Reply("linear_index", "InvalidCoordinate", None, coord, 0, <<>>)
    ELSE Reply("linear_index", "ok", None, coord, LinearIndex(dset, coord), <<>>)

(***************************************************************************)
(* Inputs of the point queries.                                            *)
(***************************************************************************)
QueryIndices ==
    CASE IsShapeless(dset)  -> (0 - IdxMargin)..IdxMargin
      [] IsContiguous(dset) -> {0}
      [] OTHER              -> (0 - IdxMargin)..(TotalChunks(dset) + IdxMargin - 1)

\* every coordinate inside an array of the given shape
RECURSIVE CoordsBelow(_)
CoordsBelow(shape) ==
    IF shape = <<>> THEN {<<>>}
    ELSE {<<a>> \o t : a \in 0..(Head(shape) - 1), t \in CoordsBelow(Tail(shape))}

\* coordinates of a wrong rank: a chunk offset without its last axis, and
\* one with an extra axis
WrongRankCoords ==
    {SubSeq(c, 1, Len(c) - 1) : c \in GridCoords(dset)}
        \cup {Append(c, 0) : c \in GridCoords(dset)}

QueryCoords ==
    CASE IsShapeless(dset)  -> {<<>>, <<0>>, <<0, 0>>, <<1, 0>>}
      [] IsContiguous(dset) -> {ZeroCoord(dset)}
      [] OTHER              -> CoordsBelow(Shape(dset)) \cup WrongRankCoords

(***************************************************************************)
(* Queries, issued once the file is flushed.  A query changes nothing in   *)
(* the file, so each behaviour issues one and keeps its result.            *)
(***************************************************************************)
ReadStore ==
    /\ pc = "flushed"
    /\ result' = Reply("store", "ok", None, <<>>, 0, store)
    /\ pc' = "queried"
    /\ UNCHANGED <<dset, btree, cont_addr, chunk_offsets, fileLen>>

GetNumChunks ==
    /\ pc = "flushed"
    /\ result' = Reply("get_num_chunks", "ok", None, <<>>, get_num_chunks, <<>>)
    /\ pc' = "queried"
    /\ UNCHANGED <<dset, btree, cont_addr, chunk_offsets, fileLen>>

GetChunkInfo ==
    /\ pc = "flushed"
    /\ \E idx \in QueryIndices : result' = get_chunk_info(idx)
    /\ pc' = "queried"
    /\ UNCHANGED <<dset, btree, cont_addr, chunk_offsets, fileLen>>

GetChunkInfoByCoord ==
    /\ pc = "flushed"
    /\ \E coord \in QueryCoords : result' = get_chunk_info_by_coord(coord)
    /\ pc' = "queried"
    /\ UNCHANGED <<dset, btree, cont_addr, chunk_offsets, fileLen>>

(***************************************************************************)
(* Byte-range reader over the flushed file.                                *)
(***************************************************************************)
\* len(h5.read(size)) after h5.seek(boffset): what the file holds from
\* boffset on, at most size bytes
FileRead(boffset, size) ==
    IF boffset >= fileLen THEN 0
    ELSE IF fileLen - boffset < size THEN fileLen - boffset
    ELSE size

\* Result of a read: idx is the length of the value returned (None when
\* nothing is returned), coord the request, n the number of bytes read
\* (None when the file was not read).
ReadReply(op, status, returned, boffset, size, nread) ==
    Reply(op, status, returned, <<boffset, size>>, nread, <<>>)

\* as get_bytes, but returning whatever was read
get_bytes_NoLengthCheck(boffset, size) ==
    LET buf == FileRead(boffset, size)
    IN  ReadReply("get_bytes", "ok", buf, boffset, size, buf)

\* TestStoreInfo.get_bytes
get_bytes(boffset, size) ==
    LET buf == FileRead(boffset, size)
    IN  IF buf # size
        THEN ReadReply("get_bytes", "IOError", None, boffset, size, buf)
        ELSE ReadReply("get_bytes", "ok", buf, boffset, size, buf)

\* get_cksum of examples/store_info.py; the digest covers the bytes read
get_cksum(fobj, offset, blen) ==
    IF fobj
    THEN LET byte_stream == FileRead(offset, blen)
         IN  IF byte_stream # blen
             THEN ReadReply("get_cksum", "IOError", None, offset, blen, byte_stream)
             ELSE ReadReply("get_cksum", "ok", byte_stream, offset, blen, byte_stream)
    ELSE ReadReply("get_cksum", "ok", None, offset, blen, None)

\* the byte ranges asked for: those of the records of store, and longer ones
ReadRequests ==
    LET recs == store
    IN  {<<recs[k].file_offset, recs[k].size + extra>> :
            k \in 1..Len(recs), extra \in 0..MaxOverread}

GetBytes ==
    /\ pc = "flushed"
    /\ \E req \in ReadRequests : result' = get_bytes(req[1], req[2])
    /\ pc' = "queried"
    /\ UNCHANGED <<dset, btree, cont_addr, chunk_offsets, fileLen>>

GetCksum ==
    /\ pc = "flushed"
    /\ \E fobj \in BOOLEAN, req \in ReadRequests :
          result' = get_cksum(fobj, req[1], req[2])
    /\ pc' = "queried"
    /\ UNCHANGED <<dset, btree, cont_addr, chunk_offsets, fileLen>>

\* the codec applied to an index and to a coordinate of a chunked layout
CodecCoordinate ==
    /\ pc = "flushed"
    /\ IsChunked(dset)
    /\ \E idx \in QueryIndices : result' = coordinate(idx)
    /\ pc' = "queried"
    /\ UNCHANGED <<dset, btree, cont_addr, chunk_offsets, fileLen>>

CodecLinearIndex ==
    /\ pc = "flushed"
    /\ IsChunked(dset)
    /\ \E coord \in QueryCoords : result' = linear_index(coord)
    /\ pc' = "queried"
    /\ UNCHANGED <<dset, btree, cont_addr, chunk_offsets, fileLen>>

Next ==
    \/ SetUpWrite
    \/ WriteChunk
    \/ WriteContiguous
    \/ Flush
    \/ ReadStore
    \/ GetNumChunks
    \/ GetChunkInfo
    \/ GetChunkInfoByCoord
    \/ CodecCoordinate
    \/ CodecLinearIndex
    \/ GetBytes
    \/ GetCksum

Spec == Init /\ [][Next]_vars

(***************************************************************************)
(* Properties.                                                             *)
(***************************************************************************)
Flushed == pc \in {"flushed", "queried"}

\* the chunk offsets written so far, as a set
OffsetsWritten == {chunk_offsets[k] : k \in 1..Len(chunk_offsets)}

\* C1: for a dataset declared with no shape, list_all() is the empty
\* sequence, chunk_count() is 0, and get_by_index(i) and
\* get_by_coordinate(c) fail with IndexOutOfRange for every i and c,
\* returning no record.
C1_ShapelessHasNoRecords ==
    IsShapeless(dset) =>
        /\ result.op = "store" => result.recs = <<>>
        /\ result.op = "get_num_chunks" => result.n = 0
        /\ result.op \in {"get_chunk_info", "get_chunk_info_by_coord"} =>
              /\ result.status = "IndexOutOfRange"
              /\ result.recs = <<>>

C1_Witness ==
    /\ IsShapeless(dset)
    /\ result.op = "get_chunk_info_by_coord"
    /\ result.coord = <<0, 0>>
    /\ result.status = "IndexOutOfRange"

\* C2: for a contiguous dataset chunk_count() is 0 or 1 and list_all() has
\* that many records; the single record has size = element count * dtype
\* size, the all-zeros chunk_offset of the dataset's rank, filter_mask 0
\* and a set file_offset.
C2_ContiguousOneRecord ==
    IsContiguous(dset) =>
        /\ result.op = "get_num_chunks" =>
              /\ result.n \in {0, 1}
              /\ result.n = Len(store)
        /\ result.op = "store" =>
              /\ Len(result.recs) \in {0, 1}
              /\ Len(result.recs) = get_num_chunks
              /\ Len(result.recs) = 1 =>
                    /\ result.recs[1].size = Prod(Shape(dset)) * ItemSize(dset)
                    /\ Len(result.recs[1].chunk_offset) = Len(Shape(dset))
                    /\ \A i \in 1..Len(Shape(dset)) :
                          result.recs[1].chunk_offset[i] = 0
                    /\ result.recs[1].filter_mask = 0
                    /\ result.recs[1].file_offset # None
                    /\ result.recs[1].file_offset >= 0

C2_Witness ==
    /\ dset = "cont"
    /\ result.op = "store"
    /\ Len(result.recs) = 1
    /\ result.recs[1].size = 2464

\* C3: for a chunked dataset list_all() holds exactly one record per
\* written chunk and none for an unwritten grid slot, in strictly ascending
\* order of index, and chunk_count() equals the length of list_all().
C3_ListAllIsWrittenChunks ==
    IsChunked(dset) =>
        /\ result.op = "store" =>
              /\ Len(result.recs) = Len(chunk_offsets)
              /\ {result.recs[k].chunk_offset : k \in 1..Len(result.recs)}
                    = OffsetsWritten
              /\ \A j, k \in 1..Len(result.recs) :
                    j < k => result.recs[j].index < result.recs[k].index
              /\ \A k \in 1..Len(result.recs) : result.recs[k].file_offset # None
              /\ Len(result.recs) = get_num_chunks
        /\ result.op = "get_num_chunks" =>
              /\ result.n = Len(chunk_offsets)
              /\ result.n = Len(store)

C3_Witness ==
    /\ dset = "small"
    /\ result.op = "store"
    /\ Len(result.recs) = 2
    /\ chunk_offsets = <<<<4, 2>>, <<0, 2>>>>

\* the record a point query returned
Rec == result.recs[1]

ReturnedRecord == result.status = "ok" /\ Len(result.recs) = 1

\* an unwritten placeholder: no address and no bytes
IsPlaceholder(r) == r.file_offset = None /\ r.size = 0

\* number of written chunks that precede offset c in row-major order
WrittenBefore(c) ==
    Cardinality({x \in OffsetsWritten : LinearIndex(dset, x) < LinearIndex(dset, c)})

\* C4 as stated: a record's index is the chunk's position in the row-major
\* enumeration of all grid slots; in the dataset of shape (24,16) with chunk
\* shape (6,4) and the chunks at (0,8),(0,12),(6,8),(6,12) written,
\* list_all() has 4 records in ascending index order, each of 6*4*itemsize
\* bytes, and get_by_index(i) returns an unwritten placeholder for each of
\* the other 12 grid slots i.
C4_IndexIsGridSlot ==
    (dset = "chunked" /\ Flushed) =>
        /\ chunk_offsets = <<<<0, 8>>, <<0, 12>>, <<6, 8>>, <<6, 12>>>>
        /\ TotalChunks(dset) = 16
        /\ result.op = "store" =>
              /\ Len(result.recs) = 4
              /\ \A j, k \in 1..Len(result.recs) :
                    j < k => result.recs[j].index < result.recs[k].index
              /\ \A k \in 1..Len(result.recs) :
                    /\ result.recs[k].size = 6 * 4 * ItemSize(dset)
                    /\ result.recs[k].index =
                          LinearIndex(dset, result.recs[k].chunk_offset)
        /\ (/\ result.op = "get_chunk_info"
            /\ result.idx \in 0..15
            /\ Coordinate(dset, result.idx) \notin OffsetsWritten) =>
              /\ ReturnedRecord
              /\ IsPlaceholder(Rec)

\* C4 as amended: a record's index is the chunk's position among the
\* written chunks in row-major order; in that dataset list_all() has 4
\* records with indices 0,1,2,3, each of 6*4*itemsize bytes, and
\* get_by_index(i) returns an unwritten placeholder for each of the 12
\* indices i = 4..15.
C4_IndexIsWrittenPosition ==
    (dset = "chunked" /\ Flushed) =>
        /\ chunk_offsets = <<<<0, 8>>, <<0, 12>>, <<6, 8>>, <<6, 12>>>>
        /\ TotalChunks(dset) = 16
        /\ result.op = "store" =>
              /\ Len(result.recs) = 4
              /\ \A j, k \in 1..Len(result.recs) :
                    j < k => result.recs[j].index < result.recs[k].index
              /\ \A k \in 1..Len(result.recs) :
                    /\ result.recs[k].size = 6 * 4 * ItemSize(dset)
                    /\ result.recs[k].index = k - 1
                    /\ result.recs[k].index =
                          WrittenBefore(result.recs[k].chunk_offset)
        /\ (result.op = "get_chunk_info" /\ result.idx \in 4..15) =>
              /\ ReturnedRecord
              /\ IsPlaceholder(Rec)

C4_Witness ==
    /\ dset = "chunked"
    /\ result.op = "get_chunk_info"
    /\ result.idx = 15
    /\ ReturnedRecord
    /\ IsPlaceholder(Rec)
    /\ Len(chunk_offsets) = 4

\* the chunks were written in row-major order of the grid
WrittenInRowMajorOrder ==
    \A j, k \in 1..Len(chunk_offsets) :
        j < k => LinearIndex(dset, chunk_offsets[j]) < LinearIndex(dset, chunk_offsets[k])

\* C5: for a chunked dataset whose n chunks were written in row-major
\* order, the k-th record of list_all() has index k and the offset of the
\* k-th written chunk, and get_by_index(k), k < n, returns a written record
\* (file_offset set and non-zero, size = chunk element count * itemsize)
\* with the offset of that k-th written chunk.
C5_KthRecordIsKthChunk ==
    (IsChunked(dset) /\ WrittenInRowMajorOrder) =>
        /\ result.op = "store" =>
              \A k \in 1..Len(result.recs) :
                  /\ result.recs[k].index = k - 1
                  /\ k <= Len(chunk_offsets)
                  /\ result.recs[k].chunk_offset = chunk_offsets[k]
        /\ (/\ result.op = "get_chunk_info"
            /\ result.idx >= 0
            /\ result.idx < Len(chunk_offsets)) =>
              /\ ReturnedRecord
              /\ Rec.index = result.idx
              /\ Rec.file_offset # None
              /\ Rec.file_offset # 0
              /\ Rec.size = Prod(Chunks(dset)) * ItemSize(dset)
              /\ Rec.chunk_offset = chunk_offsets[result.idx + 1]

C5_Witness ==
    /\ dset = "small"
    /\ chunk_offsets = <<<<0, 2>>, <<2, 0>>, <<4, 2>>>>
    /\ result.op = "get_chunk_info"
    /\ result.idx = 2
    /\ ReturnedRecord
    /\ Rec.chunk_offset = <<4, 2>>

\* the unwritten record of a lookup by index
IsUnwrittenByIndex(r, idx) ==
    /\ r.index = idx
    /\ r.file_offset = None
    /\ r.size = 0
    /\ r.filter_mask = 0
    /\ r.chunk_offset = NoneCoord

\* C6 as stated: for a chunked dataset and an index idx inside the grid
\* whose grid slot holds a chunk that was never written, get_by_index(idx)
\* returns a record with index = idx, file_offset unset, size 0,
\* filter_mask 0 and chunk_offset unset.
C6_UnwrittenSlotIsPlaceholder ==
    (/\ IsChunked(dset)
     /\ result.op = "get_chunk_info"
     /\ result.idx >= 0
     /\ result.idx < TotalChunks(dset)
     /\ Coordinate(dset, result.idx) \notin OffsetsWritten) =>
        /\ ReturnedRecord
        /\ IsUnwrittenByIndex(Rec, result.idx)

\* C6 as amended: for a chunked dataset and an index idx inside the grid
\* that is at or past the number of written chunks (idx 0 of a dataset with
\* no data, an idx past the largest index in list_all()), get_by_index(idx)
\* returns a record with index = idx, file_offset unset, size 0,
\* filter_mask 0 and chunk_offset unset.
C6_PastWrittenIsPlaceholder ==
    (/\ IsChunked(dset)
     /\ result.op = "get_chunk_info"
     /\ result.idx >= Len(chunk_offsets)
     /\ result.idx < TotalChunks(dset)) =>
        /\ ReturnedRecord
        /\ IsUnwrittenByIndex(Rec, result.idx)

C6_Witness ==
    /\ dset = "chunked"
    /\ result.op = "get_chunk_info"
    /\ result.idx = Len(chunk_offsets) + 1
    /\ ReturnedRecord
    /\ IsUnwrittenByIndex(Rec, 5)

\* ceil(a / b) for positive b
CeilDiv(a, b) == IF a % b = 0 THEN a \div b ELSE (a \div b) + 1

\* product over the axes of ceil(shape[d] / chunk_shape[d])
RECURSIVE GridCountFrom(_, _)
GridCountFrom(d, i) ==
    IF i > Len(Shape(d)) THEN 1
    ELSE CeilDiv(Shape(d)[i], Chunks(d)[i]) * GridCountFrom(d, i + 1)

\* C7: for a chunked dataset, get_by_index(idx) with idx negative or
\* idx >= the grid's total chunk count fails with IndexOutOfRange and
\* returns no record; a placeholder is returned only for an index inside
\* the grid.
C7_IndexOutOfRange ==
    (IsChunked(dset) /\ result.op = "get_chunk_info") =>
        /\ (result.idx < 0 \/ result.idx >= GridCountFrom(dset, 1)) =>
              /\ result.status = "IndexOutOfRange"
              /\ result.recs = <<>>
        /\ (ReturnedRecord /\ IsPlaceholder(Rec)) =>
              (result.idx >= 0 /\ result.idx < GridCountFrom(dset, 1))

C7_Witness ==
    /\ dset = "small"
    /\ result.op = "get_chunk_info"
    /\ result.idx = 6
    /\ result.status = "IndexOutOfRange"
    /\ Len(chunk_offsets) = 2

\* coord has the dataset's rank and is a multiple of the chunk shape
ChunkAligned(coord) ==
    /\ Len(coord) = Len(Shape(dset))
    /\ \A i \in 1..Len(coord) : coord[i] % Chunks(dset)[i] = 0

\* C8 as stated: for a chunked dataset and a chunk-aligned coordinate whose
\* chunk was never written, get_by_coordinate(coord) returns a record with
\* file_offset unset, size 0, chunk_offset = coord and index unset.
C8_UnwrittenCoordEchoed ==
    (/\ IsChunked(dset)
     /\ result.op = "get_chunk_info_by_coord"
     /\ ChunkAligned(result.coord)
     /\ result.coord \notin OffsetsWritten) =>
        /\ ReturnedRecord
        /\ Rec.file_offset = None
        /\ Rec.size = 0
        /\ Rec.chunk_offset = result.coord
        /\ Rec.index = None

\* C8 as amended: for a chunked dataset and a chunk-aligned coordinate whose
\* chunk was never written, get_by_coordinate(coord) returns a record with
\* file_offset unset, size 0, chunk_offset unset and index unset.
C8_UnwrittenCoordUnset ==
    (/\ IsChunked(dset)
     /\ result.op = "get_chunk_info_by_coord"
     /\ ChunkAligned(result.coord)
     /\ result.coord \notin OffsetsWritten) =>
        /\ ReturnedRecord
        /\ Rec.file_offset = None
        /\ Rec.size = 0
        /\ Rec.chunk_offset = NoneCoord
        /\ Rec.index = None

C8_Witness ==
    /\ dset = "chunked_nodata"
    /\ result.op = "get_chunk_info_by_coord"
    /\ result.coord = <<0, 0>>
    /\ ReturnedRecord
    /\ Rec.chunk_offset = NoneCoord

\* C9: for a chunked dataset, get_by_coordinate(coord) fails with
\* InvalidCoordinate, returning no record, whenever coord's rank differs
\* from the dataset's rank or some coord[d] is not a multiple of
\* chunk_shape[d].
C9_InvalidCoordinate ==
    (/\ IsChunked(dset)
     /\ result.op = "get_chunk_info_by_coord"
     /\ \/ Len(result.coord) # Len(Shape(dset))
        \/ \E i \in 1..Len(result.coord) :
              result.coord[i] % Chunks(dset)[i] # 0) =>
        /\ result.status = "InvalidCoordinate"
        /\ result.recs = <<>>

C9_Witness ==
    /\ dset = "small"
    /\ result.op = "get_chunk_info_by_coord"
    /\ result.coord = <<2, 1>>
    /\ result.status = "InvalidCoordinate"

\* C10: for a chunked dataset and every record r of list_all(),
\* get_by_coordinate(r.chunk_offset) returns a record with the same
\* file_offset, the same size and chunk_offset = r.chunk_offset.
C10_BulkAndPointAgree ==
    (IsChunked(dset) /\ result.op = "get_chunk_info_by_coord") =>
        \A k \in 1..Len(store) :
            store[k].chunk_offset = result.coord =>
                /\ ReturnedRecord
                /\ Rec.file_offset = store[k].file_offset
                /\ Rec.size = store[k].size
                /\ Rec.chunk_offset = store[k].chunk_offset

C10_Witness ==
    /\ dset = "small"
    /\ chunk_offsets = <<<<4, 0>>, <<0, 2>>>>
    /\ result.op = "get_chunk_info_by_coord"
    /\ result.coord = <<4, 0>>
    /\ ReturnedRecord
    /\ Rec.file_offset = HeaderSize
    /\ store[2].file_offset = HeaderSize

\* coord moved by one chunk along its last axis
NextOnLastAxis(coord) ==
    [coord EXCEPT ![Len(coord)] = coord[Len(coord)] + Chunks(dset)[Len(coord)]]

\* coord is the offset of a slot of the grid
InGrid(coord) ==
    /\ ChunkAligned(coord)
    /\ \A i \in 1..Len(coord) :
          /\ coord[i] >= 0
          /\ coord[i] < CeilDiv(Shape(dset)[i], Chunks(dset)[i]) * Chunks(dset)[i]

\* C11: the codec is a row-major bijection between grid slots and linear
\* indices: coordinate(i) is defined for exactly 0 <= i < product of g_d,
\* its components are multiples of chunk_shape[d] below g_d * chunk_shape[d],
\* linear_index(coordinate(i)) = i, coordinate(linear_index(c)) = c for
\* every aligned in-grid c, and moving c by one chunk along the last axis
\* raises linear_index by exactly 1.
C11_CodecIsRowMajorBijection ==
    IsChunked(dset) =>
        /\ result.op = "coordinate" =>
              /\ result.status = "ok" <=>
                    (result.idx >= 0 /\ result.idx < GridCountFrom(dset, 1))
              /\ result.status = "ok" =>
                    /\ InGrid(result.coord)
                    /\ linear_index(result.coord).status = "ok"
                    /\ linear_index(result.coord).n = result.idx
        /\ (result.op = "linear_index" /\ InGrid(result.coord)) =>
              /\ result.status = "ok"
              /\ result.n >= 0
              /\ result.n < GridCountFrom(dset, 1)
              /\ coordinate(result.n).status = "ok"
              /\ coordinate(result.n).coord = result.coord
              /\ InGrid(NextOnLastAxis(result.coord)) =>
                    linear_index(NextOnLastAxis(result.coord)).n = result.n + 1

C11_Witness ==
    /\ dset = "cube"
    /\ result.op = "coordinate"
    /\ result.idx = 7
    /\ result.status = "ok"
    /\ result.coord = <<2, 0, 2>>

\* a read of the file took place for the last request
ReadTookPlace ==
    /\ result.op \in {"get_bytes", "get_cksum"}
    /\ result.n # None

\* C12: in a flushed file every record of list_all() lies inside the file
\* (file_offset + size <= file length) and reading size bytes at
\* file_offset returns exactly size bytes; the reader raises an error and
\* returns nothing whenever fewer bytes than requested are read.
C12_RecordsReadInFull ==
    Flushed =>
        LET recs == store
        IN  /\ \A k \in 1..Len(recs) :
                  /\ recs[k].file_offset >= 0
                  /\ recs[k].file_offset + recs[k].size <= fileLen
            /\ ReadTookPlace =>
                  /\ (\E k \in 1..Len(recs) :
                         result.coord = <<recs[k].file_offset, recs[k].size>>) =>
                        /\ result.status = "ok"
                        /\ result.idx = result.coord[2]
                  /\ fileLen - result.coord[1] < result.coord[2] =>
                        /\ result.status = "IOError"
                        /\ result.idx = None
                  /\ result.status = "ok" => result.idx = result.coord[2]

C12_Witness ==
    /\ dset = "chunked"
    /\ result.op = "get_bytes"
    /\ result.coord = <<HeaderSize + 3 * 96, 96>>
    /\ result.status = "ok"
    /\ result.idx = 96
    /\ fileLen = HeaderSize + 4 * 96

====
